---- MODULE Spec2Model ----
(***************************************************************************)
(* WordRise word-tower engine (src/app/game_engine.py): one WordRiseGame   *)
(* with its WordValidator (local word list + Datamuse fallback),           *)
(* TowerValidator and ScoreCalculator, driven by a single caller.          *)
(*                                                                         *)
(* A word is a sequence of one-character strings.  An optional value is    *)
(* the empty sequence (Python None) or a one-element sequence.             *)
(***************************************************************************)
EXTENDS Integers, Sequences, FiniteSets, TLC

VARIABLES
    tower,              \* WordRiseGame.tower
    starting_word,      \* WordRiseGame.starting_word
    start_time,         \* WordRiseGame.start_time (seconds)
    end_time,           \* WordRiseGame.end_time: None or Some(seconds)
    hints_used,         \* WordRiseGame.hints_used
    words_set,          \* WordValidator.words_set
    words_by_length,    \* WordValidator.words_by_length (length -> list)
    use_api_fallback,   \* WordValidator.use_api_fallback
    api_cache,          \* lru_cache of DatamuseAPIValidator.is_valid_word
    now,                \* datetime.now(), in seconds
    result,             \* what the last call returned, tagged with the call
    sessions,           \* SessionManager.sessions: session_id -> GameSession
    threads             \* the add_word calls in progress, one frame per thread

vars == <<tower, starting_word, start_time, end_time, hints_used, words_set,
          words_by_length, use_api_fallback, api_cache, now, result, sessions,
          threads>>

(***************************************************************************)
(* Bounds of the model.                                                    *)
(***************************************************************************)
MaxHints == 1        \* get_hint is not called once hints_used reached this
TickSeconds == 150   \* the clock advances in steps of this many seconds
MaxTicks == 1        \* the clock stops after this many steps

None == << >>
Some(x) == <<x>>

(***************************************************************************)
(* Characters and Python's str methods.                                    *)
(***************************************************************************)
LowerCase == <<"a","b","c","d","e","f","g","h","i","j","k","l","m",
               "n","o","p","q","r","s","t","u","v","w","x","y","z">>
UpperCase == <<"A","B","C","D","E","F","G","H","I","J","K","L","M",
               "N","O","P","Q","R","S","T","U","V","W","X","Y","Z">>
Space == " "

IndexIn(c, alphabet) ==
    IF \E i \in 1..Len(alphabet) : alphabet[i] = c
    THEN CHOOSE i \in 1..Len(alphabet) : alphabet[i] = c
    ELSE 0

Chars == {LowerCase[i] : i \in 1..26} \cup {UpperCase[i] : i \in 1..26} \cup {Space}

\* ord(c) for the characters of the model
CodeTable ==
    [c \in Chars |->
        IF IndexIn(c, UpperCase) > 0 THEN 64 + IndexIn(c, UpperCase)
        ELSE IF IndexIn(c, LowerCase) > 0 THEN 96 + IndexIn(c, LowerCase)
        ELSE 32]

LowerTable ==
    [c \in Chars |->
        IF IndexIn(c, UpperCase) > 0 THEN LowerCase[IndexIn(c, UpperCase)] ELSE c]

UpperTable ==
    [c \in Chars |->
        IF IndexIn(c, LowerCase) > 0 THEN UpperCase[IndexIn(c, LowerCase)] ELSE c]

Code(c) == CodeTable[c]

LowerChar(c) == LowerTable[c]

UpperChar(c) == UpperTable[c]

\* str.lower()
lower(w) == [i \in 1..Len(w) |-> LowerChar(w[i])]

\* str.upper()
upper(w) == [i \in 1..Len(w) |-> UpperChar(w[i])]

RECURSIVE lstrip(_)
lstrip(w) == IF w # << >> /\ Head(w) = Space THEN lstrip(Tail(w)) ELSE w

RECURSIVE rstrip(_)
rstrip(w) ==
    IF w # << >> /\ w[Len(w)] = Space THEN rstrip(SubSeq(w, 1, Len(w) - 1)) ELSE w

\* str.strip()
strip(w) == rstrip(lstrip(w))

\* insert character c into the sorted sequence s, after its equals
RECURSIVE InsertSorted(_, _)
InsertSorted(c, s) ==
    IF s = << >> THEN <<c>>
    ELSE IF Code(c) < Code(Head(s)) THEN <<c>> \o s
    ELSE <<Head(s)>> \o InsertSorted(c, Tail(s))

\* sorted(word)
RECURSIVE sorted(_)
sorted(w) ==
    IF w = << >> THEN << >> ELSE InsertSorted(w[Len(w)], sorted(SubSeq(w, 1, Len(w) - 1)))

\* x in list
InSeq(x, s) == \E i \in 1..Len(s) : s[i] = x

(***************************************************************************)
(* collections.Counter: the distinct letters in order of first occurrence  *)
(* (the iteration order of a Counter) and the count of a letter.           *)
(***************************************************************************)
RECURSIVE CounterKeys(_)
CounterKeys(w) ==
    IF w = << >> THEN << >>
    ELSE LET rest == CounterKeys(SubSeq(w, 1, Len(w) - 1))
             c == w[Len(w)]
         IN IF InSeq(c, rest) THEN rest ELSE Append(rest, c)

\* Counter(w)[c], 0 for a missing key
CounterGet(w, c) == Cardinality({i \in 1..Len(w) : w[i] = c})

\* [letter] * n
RECURSIVE Repeat(_, _)
Repeat(c, n) == IF n <= 0 THEN << >> ELSE <<c>> \o Repeat(c, n - 1)

(***************************************************************************)
(* The word data (data/words.json, data/words_by_length.json) and the      *)
(* Datamuse service.                                                       *)
(***************************************************************************)
art == <<"a","r","t">>
cat == <<"c","a","t">>
Tart == <<Space,"T","a","r","t",Space>>
tart == <<"t","a","r","t">>
path == <<"p","a","t","h">>
arts == <<"a","r","t","s">>
start == <<"s","t","a","r","t">>
tarts == <<"t","a","r","t","s">>
xyz == <<"x","y","z">>

\* the word lists a process may have been started with
WordFiles == { {art, cat, tart, path, start, tarts} }

\* words the Datamuse service answers with an exact match
OracleWords == {art, cat, tart, path, arts, start, tarts}

\* what requests.get may do: answer, or raise a RequestException (timeout)
NetOutcomes == {"ok", "error"}

\* the list of the words of a set, in some fixed order
RECURSIVE SetToSeq(_)
SetToSeq(S) ==
    IF S = {} THEN << >>
    ELSE LET x == CHOOSE x \in S : TRUE IN <<x>> \o SetToSeq(S \ {x})

\* words_by_length.json as setup_words.py writes it: the words grouped by length
LoadWordsByLength(words) ==
    [n \in {Len(w) : w \in words} |-> SetToSeq({w \in words : Len(w) = n})]

(***************************************************************************)
(* DatamuseAPIValidator.is_valid_word, without its cache: the answer of    *)
(* one request.                                                            *)
(***************************************************************************)
api_request(word, net) ==
    LET w == strip(lower(word))
    IN IF net = "ok" THEN w \in OracleWords ELSE FALSE

(***************************************************************************)
(* DatamuseAPIValidator.is_valid_word under lru_cache: a cached answer is  *)
(* returned without a request, a new answer is stored.                     *)
(***************************************************************************)
api_is_valid_word(word, cache, net) ==
    IF word \in DOMAIN cache
    THEN [valid |-> cache[word], cache |-> cache]
    ELSE LET v == api_request(word, net)
         IN [valid |-> v, cache |-> (word :> v) @@ cache]

\* the outcomes of the request WordValidator.is_valid_word(word) may make: none
\* is made for a local word, with the fallback off or on a cached answer
RequestOutcomes(word) ==
    IF lower(word) \notin words_set /\ use_api_fallback /\ lower(word) \notin DOMAIN api_cache
    THEN NetOutcomes
    ELSE {"none"}

\* is_valid_word that learns the word whatever the oracle answered
is_valid_word_learn_always(word, net) ==
    LET word_lower == lower(word)
    IN IF word_lower \in words_set
       THEN [valid |-> TRUE, words_set |-> words_set, cache |-> api_cache]
       ELSE IF use_api_fallback
       THEN LET a == api_is_valid_word(word_lower, api_cache, net)
            IN [valid |-> a.valid,
                words_set |-> words_set \cup {word_lower},
                cache |-> a.cache]
       ELSE [valid |-> FALSE, words_set |-> words_set, cache |-> api_cache]

(***************************************************************************)
(* WordValidator.is_valid_word: the answer, and the validator's word set   *)
(* and the cache after the call.                                           *)
(***************************************************************************)
is_valid_word(word, net) ==
    LET word_lower == lower(word)
    IN IF word_lower \in words_set
       THEN [valid |-> TRUE, words_set |-> words_set, cache |-> api_cache]
       ELSE IF use_api_fallback
       THEN LET a == api_is_valid_word(word_lower, api_cache, net)
            IN [valid |-> a.valid,
                words_set |-> IF a.valid THEN words_set \cup {word_lower} ELSE words_set,
                cache |-> a.cache]
       ELSE [valid |-> FALSE, words_set |-> words_set, cache |-> api_cache]

\* WordValidator.get_words_of_length
get_words_of_length(length) ==
    IF length \in DOMAIN words_by_length THEN words_by_length[length] ELSE << >>

(***************************************************************************)
(* TowerValidator                                                          *)
(***************************************************************************)
\* the added_letters list of can_build_word, over the keys of new_counter
RECURSIVE AddedLetters(_, _, _)
AddedLetters(keys, base, new) ==
    IF keys = << >> THEN << >>
    ELSE LET letter == Head(keys)
             count == CounterGet(new, letter)
             base_count == CounterGet(base, letter)
         IN (IF count > base_count THEN Repeat(letter, count - base_count) ELSE << >>)
            \o AddedLetters(Tail(keys), base, new)

\* can_build_word with "<=" for "<" in the check of the base letters
can_build_word_leq(base_word, new_word) ==
    LET base == lower(base_word)
        new == lower(new_word)
        added_letters == AddedLetters(CounterKeys(new), base, new)
    IN IF Len(new) # Len(base) + 1
       THEN <<FALSE, [text |-> "Word must be exactly N letters long", arg |-> <<Len(base) + 1>>]>>
       ELSE IF \E i \in 1..Len(base) : CounterGet(new, base[i]) <= CounterGet(base, base[i])
       THEN <<FALSE, [text |-> "Must use all letters from", arg |-> base]>>
       ELSE IF Len(added_letters) # 1
       THEN <<FALSE, [text |-> "Must add exactly one new letter", arg |-> << >>]>>
       ELSE <<TRUE, [text |-> "Added letter:", arg |-> <<UpperChar(added_letters[1])>>]>>

\* can_build_word without the check of the length
can_build_word_no_length(base_word, new_word) ==
    LET base == lower(base_word)
        new == lower(new_word)
        added_letters == AddedLetters(CounterKeys(new), base, new)
    IN IF \E i \in 1..Len(base) : CounterGet(new, base[i]) < CounterGet(base, base[i])
       THEN <<FALSE, [text |-> "Must use all letters from", arg |-> base]>>
       ELSE IF Len(added_letters) # 1
       THEN <<FALSE, [text |-> "Must add exactly one new letter", arg |-> << >>]>>
       ELSE <<TRUE, [text |-> "Added letter:", arg |-> <<UpperChar(added_letters[1])>>]>>

\* TowerValidator.can_build_word: <<is_valid, message>>
can_build_word(base_word, new_word) ==
    LET base == lower(base_word)
        new == lower(new_word)
        added_letters == AddedLetters(CounterKeys(new), base, new)
    IN IF Len(new) # Len(base) + 1
       THEN <<FALSE, [text |-> "Word must be exactly N letters long", arg |-> <<Len(base) + 1>>]>>
       ELSE IF \E i \in 1..Len(base) : CounterGet(new, base[i]) < CounterGet(base, base[i])
       THEN <<FALSE, [text |-> "Must use all letters from", arg |-> base]>>
       ELSE IF Len(added_letters) # 1
       THEN <<FALSE, [text |-> "Must add exactly one new letter", arg |-> << >>]>>
       ELSE <<TRUE, [text |-> "Added letter:", arg |-> <<UpperChar(added_letters[1])>>]>>

\* the first key of new_counter that occurs more often than in base_counter
RECURSIVE FirstAdded(_, _, _)
FirstAdded(keys, base, new) ==
    IF keys = << >> THEN None
    ELSE IF CounterGet(new, Head(keys)) > CounterGet(base, Head(keys))
    THEN Some(Head(keys))
    ELSE FirstAdded(Tail(keys), base, new)

\* get_added_letter with ">=" for ">" in the comparison of the counts
get_added_letter_geq(base_word, new_word) ==
    IF lower(new_word) = << >> THEN None ELSE Some(lower(new_word)[1])

\* TowerValidator.get_added_letter: None or Some(letter)
get_added_letter(base_word, new_word) ==
    FirstAdded(CounterKeys(lower(new_word)), lower(base_word), lower(new_word))

(***************************************************************************)
(* ScoreCalculator                                                         *)
(***************************************************************************)
UNCOMMON_LETTERS == {"q", "z", "x", "j", "k"}
UNCOMMON_BONUS == 5
SPEED_LIMIT_SECONDS == 300

\* word_letter_bonus of one word
word_letter_bonus(word) ==
    UNCOMMON_BONUS * Cardinality({i \in 1..Len(word) : lower(word)[i] \in UNCOMMON_LETTERS})

\* a breakdown entry whose multiplier counts the levels from 0
breakdown_entry_zero_indexed(level, word) ==
    [level |-> level, word |-> word, length |-> Len(word), multiplier |-> level - 1,
     base_points |-> Len(word) * (level - 1), letter_bonus |-> word_letter_bonus(word)]

\* the breakdown entry of one level
breakdown_entry(level, word) ==
    [level |-> level, word |-> word, length |-> Len(word), multiplier |-> level,
     base_points |-> Len(word) * level, letter_bonus |-> word_letter_bonus(word)]

RECURSIVE SumField(_, _)
SumField(entries, field) ==
    IF entries = << >> THEN 0
    ELSE entries[Len(entries)][field] + SumField(SubSeq(entries, 1, Len(entries) - 1), field)

\* calculate_tower_score without the limit on the time of the speed bonus
calculate_tower_score_no_limit(tw, time_seconds) ==
    IF tw = << >>
    THEN [total_score |-> 0, base_score |-> 0, letter_bonus |-> 0, speed_bonus |-> 0,
          height |-> 0, breakdown |-> << >>]
    ELSE LET breakdown == [i \in 1..Len(tw) |-> breakdown_entry(i, tw[i])]
             base_score == SumField(breakdown, "base_points")
             letter_bonus == SumField(breakdown, "letter_bonus")
             speed_bonus ==
                 IF time_seconds # None /\ time_seconds[1] # 0
                 THEN (base_score + letter_bonus) \div 10
                 ELSE 0
         IN [total_score |-> base_score + letter_bonus + speed_bonus,
             base_score |-> base_score, letter_bonus |-> letter_bonus,
             speed_bonus |-> speed_bonus, height |-> Len(tw),
             time_seconds |-> time_seconds, breakdown |-> breakdown]

\* ScoreCalculator.calculate_tower_score; time_seconds is None or Some(n).
\* int(x * 0.1) is the integer quotient by 10 for the non-negative integers x.
calculate_tower_score(tw, time_seconds) ==
    IF tw = << >>
    THEN [total_score |-> 0, base_score |-> 0, letter_bonus |-> 0, speed_bonus |-> 0,
          height |-> 0, breakdown |-> << >>]
    ELSE LET breakdown == [i \in 1..Len(tw) |-> breakdown_entry(i, tw[i])]
             base_score == SumField(breakdown, "base_points")
             letter_bonus == SumField(breakdown, "letter_bonus")
             speed_bonus ==
                 IF time_seconds # None /\ time_seconds[1] # 0
                    /\ time_seconds[1] < SPEED_LIMIT_SECONDS
                 THEN (base_score + letter_bonus) \div 10
                 ELSE 0
         IN [total_score |-> base_score + letter_bonus + speed_bonus,
             base_score |-> base_score, letter_bonus |-> letter_bonus,
             speed_bonus |-> speed_bonus, height |-> Len(tw),
             time_seconds |-> time_seconds, breakdown |-> breakdown]

(***************************************************************************)
(* WordRiseGame                                                            *)
(***************************************************************************)
\* the starting_word argument of the constructor: None or Some(word)
StartingWordArgs == {None, Some(<<"A","R","T">>), Some(<< >>)}

\* the words the add_word caller may send
AddWordArgs == {Tart, path, arts, start, xyz}

\* the hint_type arguments of get_hint
HintTypes == {"definition", "starts_with", "contains", "length", "smart"}

\* WordValidator.get_random_word: the words random.choice may return
get_random_word(length) ==
    {get_words_of_length(length)[i] : i \in 1..Len(get_words_of_length(length))}

\* self.tower[-1] if self.tower else ""
CurrentWordOf(tw) == IF tw # << >> THEN tw[Len(tw)] ELSE << >>

\* WordRiseGame.get_current_word
get_current_word == CurrentWordOf(tower)

\* WordRiseGame.get_tower_height
get_tower_height == Len(tower)

\* WordRiseGame.__init__ over a freshly loaded WordValidator
Init ==
    \E words \in WordFiles, arg \in StartingWordArgs :
        /\ words_set = words
        /\ words_by_length = LoadWordsByLength(words)
        /\ use_api_fallback = TRUE
        /\ api_cache = << >>
        /\ now = 0
        /\ sessions = << >>
        /\ threads = << >>
        /\ hints_used = 0
        /\ end_time = None
        /\ IF arg # None /\ arg[1] # << >>
           THEN starting_word = lower(arg[1])
           ELSE IF get_random_word(3) # {}
           THEN starting_word \in get_random_word(3)
           ELSE starting_word = cat
        /\ tower = <<starting_word>>
        /\ start_time = now
        /\ result = [op |-> "init"]

\* add_word that appends the word before the build rule is checked
add_word_append_first(word_arg) ==
    LET word == strip(lower(word_arg))
    IN \E net \in RequestOutcomes(word) :
        LET v == is_valid_word(word, net)
            current_word == get_current_word
            cb == can_build_word(current_word, word)
        IN /\ words_set' = v.words_set
           /\ api_cache' = v.cache
           /\ IF ~v.valid
              THEN /\ tower' = tower
                   /\ result' = [op |-> "add_word", arg |-> word_arg, success |-> FALSE,
                                 message |-> [text |-> "is not a valid word", arg |-> word]]
              ELSE IF InSeq(word, tower)
              THEN /\ tower' = tower
                   /\ result' = [op |-> "add_word", arg |-> word_arg, success |-> FALSE,
                                 message |-> [text |-> "has already been used", arg |-> word]]
              ELSE IF ~cb[1]
              THEN /\ tower' = Append(tower, word)
                   /\ result' = [op |-> "add_word", arg |-> word_arg, success |-> FALSE,
                                 message |-> cb[2]]
              ELSE /\ tower' = Append(tower, word)
                   /\ result' = [op |-> "add_word", arg |-> word_arg, success |-> TRUE,
                                 message |-> cb[2], word |-> word,
                                 added_letter |-> get_added_letter(current_word, word),
                                 tower_height |-> Len(tower'),
                                 current_letters |-> sorted(word)]
           /\ UNCHANGED <<sessions, threads,
                          starting_word, start_time, end_time, hints_used,
                          words_by_length, use_api_fallback, now>>

\* add_word that checks the build rule before the already-used check
add_word_build_first(word_arg) ==
    LET word == strip(lower(word_arg))
    IN \E net \in RequestOutcomes(word) :
        LET v == is_valid_word(word, net)
            current_word == get_current_word
            cb == can_build_word(current_word, word)
        IN /\ words_set' = v.words_set
           /\ api_cache' = v.cache
           /\ IF ~v.valid
              THEN /\ tower' = tower
                   /\ result' = [op |-> "add_word", arg |-> word_arg, success |-> FALSE,
                                 message |-> [text |-> "is not a valid word", arg |-> word]]
              ELSE IF ~cb[1]
              THEN /\ tower' = tower
                   /\ result' = [op |-> "add_word", arg |-> word_arg, success |-> FALSE,
                                 message |-> cb[2]]
              ELSE IF InSeq(word, tower)
              THEN /\ tower' = tower
                   /\ result' = [op |-> "add_word", arg |-> word_arg, success |-> FALSE,
                                 message |-> [text |-> "has already been used", arg |-> word]]
              ELSE /\ tower' = Append(tower, word)
                   /\ result' = [op |-> "add_word", arg |-> word_arg, success |-> TRUE,
                                 message |-> cb[2], word |-> word,
                                 added_letter |-> get_added_letter(current_word, word),
                                 tower_height |-> Len(tower'),
                                 current_letters |-> sorted(word)]
           /\ UNCHANGED <<sessions, threads,
                          starting_word, start_time, end_time, hints_used,
                          words_by_length, use_api_fallback, now>>

\* WordRiseGame.add_word
add_word(word_arg) ==
    LET word == strip(lower(word_arg))
    IN \E net \in RequestOutcomes(word) :
        LET v == is_valid_word(word, net)
            current_word == get_current_word
            cb == can_build_word(current_word, word)
        IN /\ words_set' = v.words_set
           /\ api_cache' = v.cache
           /\ IF ~v.valid
              THEN /\ tower' = tower
                   /\ result' = [op |-> "add_word", arg |-> word_arg, success |-> FALSE,
                                 message |-> [text |-> "is not a valid word", arg |-> word]]
              ELSE IF InSeq(word, tower)
              THEN /\ tower' = tower
                   /\ result' = [op |-> "add_word", arg |-> word_arg, success |-> FALSE,
                                 message |-> [text |-> "has already been used", arg |-> word]]
              ELSE IF ~cb[1]
              THEN /\ tower' = tower
                   /\ result' = [op |-> "add_word", arg |-> word_arg, success |-> FALSE,
                                 message |-> cb[2]]
              ELSE /\ tower' = Append(tower, word)
                   /\ result' = [op |-> "add_word", arg |-> word_arg, success |-> TRUE,
                                 message |-> cb[2], word |-> word,
                                 added_letter |-> get_added_letter(current_word, word),
                                 tower_height |-> Len(tower'),
                                 current_letters |-> sorted(word)]
           /\ UNCHANGED <<sessions, threads,
                          starting_word, start_time, end_time, hints_used,
                          words_by_length, use_api_fallback, now>>

\* undo_last_word with "< 1" for "<= 1" in its guard
undo_last_word_lt ==
    /\ IF Len(tower) < 1
       THEN /\ tower' = tower
            /\ result' = [op |-> "undo_last_word", success |-> FALSE,
                          message |-> [text |-> "Cannot undo starting word", arg |-> << >>]]
       ELSE LET removed_word == tower[Len(tower)]
            IN /\ tower' = SubSeq(tower, 1, Len(tower) - 1)
               /\ result' = [op |-> "undo_last_word", success |-> TRUE,
                             message |-> [text |-> "Removed", arg |-> removed_word],
                             tower_height |-> Len(tower'),
                             current_word |-> CurrentWordOf(tower')]
    /\ UNCHANGED <<sessions, threads,
                   starting_word, start_time, end_time, hints_used, words_set,
                   words_by_length, use_api_fallback, api_cache, now>>

\* undo_last_word that removes every word above the starting word
undo_last_word_to_start ==
    /\ IF Len(tower) <= 1
       THEN /\ tower' = tower
            /\ result' = [op |-> "undo_last_word", success |-> FALSE,
                          message |-> [text |-> "Cannot undo starting word", arg |-> << >>]]
       ELSE LET removed_word == tower[Len(tower)]
            IN /\ tower' = SubSeq(tower, 1, 1)
               /\ result' = [op |-> "undo_last_word", success |-> TRUE,
                             message |-> [text |-> "Removed", arg |-> removed_word],
                             tower_height |-> Len(tower'),
                             current_word |-> CurrentWordOf(tower')]
    /\ UNCHANGED <<sessions, threads,
                   starting_word, start_time, end_time, hints_used, words_set,
                   words_by_length, use_api_fallback, api_cache, now>>

\* WordRiseGame.undo_last_word
undo_last_word ==
    /\ IF Len(tower) <= 1
       THEN /\ tower' = tower
            /\ result' = [op |-> "undo_last_word", success |-> FALSE,
                          message |-> [text |-> "Cannot undo starting word", arg |-> << >>]]
       ELSE LET removed_word == tower[Len(tower)]
            IN /\ tower' = SubSeq(tower, 1, Len(tower) - 1)
               /\ result' = [op |-> "undo_last_word", success |-> TRUE,
                             message |-> [text |-> "Removed", arg |-> removed_word],
                             tower_height |-> Len(tower'),
                             current_word |-> CurrentWordOf(tower')]
    /\ UNCHANGED <<sessions, threads,
                   starting_word, start_time, end_time, hints_used, words_set,
                   words_by_length, use_api_fallback, api_cache, now>>

\* reset_game that appends the starting word instead of replacing the tower
reset_game_append ==
    /\ tower' = Append(tower, starting_word)
    /\ start_time' = now
    /\ end_time' = None
    /\ hints_used' = 0
    /\ result' = [op |-> "reset_game"]
    /\ UNCHANGED <<sessions, threads,
                   starting_word, words_set, words_by_length, use_api_fallback,
                   api_cache, now>>

\* reset_game that forgets to clear end_time
reset_game_keeps_end ==
    /\ tower' = <<starting_word>>
    /\ start_time' = now
    /\ hints_used' = 0
    /\ result' = [op |-> "reset_game"]
    /\ UNCHANGED <<sessions, threads,
                   starting_word, end_time, words_set, words_by_length,
                   use_api_fallback, api_cache, now>>

\* WordRiseGame.reset_game
reset_game ==
    /\ tower' = <<starting_word>>
    /\ start_time' = now
    /\ end_time' = None
    /\ hints_used' = 0
    /\ result' = [op |-> "reset_game"]
    /\ UNCHANGED <<sessions, threads,
                   starting_word, words_set, words_by_length, use_api_fallback,
                   api_cache, now>>

\* end_game that computes the time before end_time is stamped: no time is taken
end_game_no_time ==
    LET time_taken == IF end_time # None THEN Some(now - start_time) ELSE None
        score_data == calculate_tower_score(tower, time_taken)
    IN /\ end_time' = Some(now)
       /\ result' = [op |-> "end_game"] @@ score_data @@
                    [tower |-> tower, height |-> get_tower_height,
                     starting_word |-> starting_word, time_seconds |-> time_taken,
                     hints_used |-> hints_used]
       /\ UNCHANGED <<sessions, threads,
                      tower, starting_word, start_time, hints_used, words_set,
                      words_by_length, use_api_fallback, api_cache, now>>

\* WordRiseGame.end_game
end_game ==
    LET time_taken == Some(now - start_time)
        score_data == calculate_tower_score(tower, time_taken)
    IN /\ end_time' = Some(now)
       /\ result' = [op |-> "end_game"] @@ score_data @@
                    [tower |-> tower, height |-> get_tower_height,
                     starting_word |-> starting_word, time_seconds |-> time_taken,
                     hints_used |-> hints_used]
       /\ UNCHANGED <<sessions, threads,
                      tower, starting_word, start_time, hints_used, words_set,
                      words_by_length, use_api_fallback, api_cache, now>>

\* possible_words without the build-rule filter
RECURSIVE possible_words_no_build(_, _, _)
possible_words_no_build(words, tw, current_word) ==
    IF words = << >> THEN << >>
    ELSE (IF ~InSeq(Head(words), tw) THEN <<Head(words)>> ELSE << >>)
         \o possible_words_no_build(Tail(words), tw, current_word)

\* the possible_words list of get_hint, filtered from a word list
RECURSIVE possible_words(_, _, _)
possible_words(words, tw, current_word) ==
    IF words = << >> THEN << >>
    ELSE (IF ~InSeq(Head(words), tw) /\ can_build_word(current_word, Head(words))[1]
          THEN <<Head(words)>> ELSE << >>)
         \o possible_words(Tail(words), tw, current_word)

\* the hints dictionary of get_hint for the chosen hint_word
hints(hint_type, hint_word, target_length) ==
    CASE hint_type = "starts_with" ->
            [text |-> "Try a word starting with", number |-> None,
             letters |-> <<UpperChar(hint_word[1])>>]
      [] hint_type = "contains" ->
            [text |-> "Try a word containing", number |-> None,
             letters |-> <<UpperChar(hint_word[(Len(hint_word) \div 2) + 1])>>]
      [] hint_type = "length" ->
            [text |-> "The next word should be N letters long",
             number |-> Some(target_length), letters |-> << >>]
      [] OTHER ->
            [text |-> "Try a N-letter word (like '..')", number |-> Some(target_length),
             letters |-> SubSeq(hint_word, 1, IF Len(hint_word) < 2 THEN Len(hint_word) ELSE 2)]

\* get_hint that counts the hint only when one is produced
get_hint_count_on_success(hint_type) ==
    LET current_word == get_current_word
        target_length == Len(current_word) + 1
        possible == possible_words(get_words_of_length(target_length), tower, current_word)
    IN /\ hints_used < MaxHints
       /\ IF possible = << >>
          THEN /\ hints_used' = hints_used
               /\ result' = [op |-> "get_hint", success |-> FALSE,
                             message |-> [text |-> "No more words possible!", arg |-> << >>]]
          ELSE /\ hints_used' = hints_used + 1
               /\ \E k \in 1..Len(possible) :
                    result' = [op |-> "get_hint", success |-> TRUE,
                               hint |-> hints(hint_type, possible[k], target_length),
                               possible_words_count |-> Len(possible)]
       /\ UNCHANGED <<sessions, threads,
                      tower, starting_word, start_time, end_time, words_set,
                      words_by_length, use_api_fallback, api_cache, now>>

\* get_hint that collects the possible words in the tower list itself
get_hint_alias(hint_type) ==
    LET current_word == get_current_word
        target_length == Len(current_word) + 1
        possible == possible_words(get_words_of_length(target_length), tower, current_word)
    IN /\ hints_used < MaxHints
       /\ hints_used' = hints_used + 1
       /\ tower' = tower \o possible
       /\ IF possible = << >>
          THEN result' = [op |-> "get_hint", success |-> FALSE,
                          message |-> [text |-> "No more words possible!", arg |-> << >>]]
          ELSE \E k \in 1..Len(possible) :
                  result' = [op |-> "get_hint", success |-> TRUE,
                             hint |-> hints(hint_type, possible[k], target_length),
                             possible_words_count |-> Len(possible)]
       /\ UNCHANGED <<sessions, threads,
                      starting_word, start_time, end_time, words_set,
                      words_by_length, use_api_fallback, api_cache, now>>

\* WordRiseGame.get_hint
get_hint(hint_type) ==
    LET current_word == get_current_word
        target_length == Len(current_word) + 1
        possible == possible_words(get_words_of_length(target_length), tower, current_word)
    IN /\ hints_used < MaxHints
       /\ hints_used' = hints_used + 1
       /\ IF possible = << >>
          THEN result' = [op |-> "get_hint", success |-> FALSE,
                          message |-> [text |-> "No more words possible!", arg |-> << >>]]
          ELSE \E k \in 1..Len(possible) :
                  result' = [op |-> "get_hint", success |-> TRUE,
                             hint |-> hints(hint_type, possible[k], target_length),
                             possible_words_count |-> Len(possible)]
       /\ UNCHANGED <<sessions, threads,
                      tower, starting_word, start_time, end_time, words_set,
                      words_by_length, use_api_fallback, api_cache, now>>

\* the dictionary get_game_state returns
game_state ==
    [tower |-> tower, height |-> get_tower_height, current_word |-> get_current_word,
     starting_word |-> starting_word, hints_used |-> hints_used,
     is_active |-> (end_time = None)]

\* WordRiseGame.get_game_state
get_game_state ==
    /\ result' = [op |-> "get_game_state"] @@ game_state
    /\ UNCHANGED <<sessions, threads,
                   tower, starting_word, start_time, end_time, hints_used, words_set,
                   words_by_length, use_api_fallback, api_cache, now>>

\* WordRiseGame.set_api_fallback (the api_validator exists since construction)
set_api_fallback(enabled) ==
    /\ use_api_fallback' = enabled
    /\ result' = [op |-> "set_api_fallback"]
    /\ UNCHANGED <<sessions, threads,
                   tower, starting_word, start_time, end_time, hints_used, words_set,
                   words_by_length, api_cache, now>>

\* the wall clock advances between calls
Tick ==
    /\ now + TickSeconds <= MaxTicks * TickSeconds
    /\ now' = now + TickSeconds
    /\ UNCHANGED <<sessions, threads,
                   tower, starting_word, start_time, end_time, hints_used, words_set,
                   words_by_length, use_api_fallback, api_cache, result>>

Next ==
    \/ \E word_arg \in AddWordArgs : add_word(word_arg)
    \/ undo_last_word
    \/ reset_game
    \/ end_game
    \/ \E hint_type \in HintTypes : get_hint(hint_type)
    \/ get_game_state
    \/ \E enabled \in BOOLEAN : set_api_fallback(enabled)
    \/ Tick

Spec == Init /\ [][Next]_vars

(***************************************************************************)
(* The static functions of TowerValidator and ScoreCalculator, applied to  *)
(* arguments drawn from bounded sets.  result holds the call to make and  *)
(* then the call with its value; the session variables are not used.      *)
(***************************************************************************)
MaxWordLen == 3
MaxTowerLen == 3

PureLetters == {"a", "b", "k"}
WordsUpTo(n) == UNION {[1..k -> PureLetters] : k \in 0..n}
ka == <<"k", "a">>
ScoreWords == {art, tart, ka}
TowersUpTo(n) == UNION {[1..k -> ScoreWords] : k \in 0..n}
TimeArgs == {None, Some(0), Some(1), Some(200), Some(299), Some(300), Some(400)}

\* the call to make: a function name with its arguments
InitPure ==
    /\ words_set = {}
    /\ words_by_length = LoadWordsByLength({})
    /\ use_api_fallback = FALSE
    /\ api_cache = << >>
    /\ now = 0
    /\ sessions = << >>
    /\ threads = << >>
    /\ hints_used = 0
    /\ start_time = None
    /\ end_time = None
    /\ starting_word = << >>
    /\ tower = << >>
    /\ \/ \E fn \in {"can_build_word", "get_added_letter"} :
            \E b \in WordsUpTo(MaxWordLen), c \in WordsUpTo(MaxWordLen + 1) :
               result = [op |-> "call", fn |-> fn, base_word |-> b, new_word |-> c]
       \/ \E tw \in TowersUpTo(MaxTowerLen), t \in TimeArgs :
            result = [op |-> "call", fn |-> "calculate_tower_score",
                      tower |-> tw, time_seconds |-> t]

call_can_build_word ==
    /\ result.op = "call" /\ result.fn = "can_build_word"
    /\ result' = [op |-> "can_build_word", base_word |-> result.base_word,
                  new_word |-> result.new_word,
                  value |-> can_build_word(result.base_word, result.new_word)]
    /\ UNCHANGED <<sessions, threads,
                   tower, starting_word, start_time, end_time, hints_used, words_set,
                   words_by_length, use_api_fallback, api_cache, now>>

call_get_added_letter ==
    /\ result.op = "call" /\ result.fn = "get_added_letter"
    /\ result' = [op |-> "get_added_letter", base_word |-> result.base_word,
                  new_word |-> result.new_word,
                  value |-> get_added_letter(result.base_word, result.new_word)]
    /\ UNCHANGED <<sessions, threads,
                   tower, starting_word, start_time, end_time, hints_used, words_set,
                   words_by_length, use_api_fallback, api_cache, now>>

call_calculate_tower_score ==
    /\ result.op = "call" /\ result.fn = "calculate_tower_score"
    /\ result' = [op |-> "calculate_tower_score", tower |-> result.tower,
                  time_seconds |-> result.time_seconds,
                  value |-> calculate_tower_score(result.tower, result.time_seconds)]
    /\ UNCHANGED <<sessions, threads,
                   tower, starting_word, start_time, end_time, hints_used, words_set,
                   words_by_length, use_api_fallback, api_cache, now>>

NextPure ==
    \/ call_can_build_word
    \/ call_get_added_letter
    \/ call_calculate_tower_score

SpecPure == InitPure /\ [][NextPure]_vars

(***************************************************************************)
(* The engine with the enhanced hints (src/game_engine.py).  Its           *)
(* undo_last_word, reset_game and set_api_fallback are the code of the     *)
(* engine above, and its WordValidator.is_valid_word differs only in the   *)
(* statistics it counts.  Its end_game and get_game_state write nothing    *)
(* that get_hint reads and are left out, and the clock, which only        *)
(* reset_game reads, stands still.  The lru_cache of get_word_frequency    *)
(* and get_word_definition is not kept: every answer a cache can hold is   *)
(* an answer a request can give.                                           *)
(***************************************************************************)
a == <<"a">>
at == <<"a","t">>
cart == <<"c","a","r","t">>
dart == <<"d","a","r","t">>
part == <<"p","a","r","t">>
mart == <<"m","a","r","t">>
wart == <<"w","a","r","t">>

EnhancedWordFiles == { {a, at, art, tart, cart, dart, part, mart, wart} }
EnhancedStartingWordArgs == {None, Some(a), Some(<<"A","R","T">>)}
EnhancedAddWordArgs == {at, art, tart}
EnhancedHintTypes == {"smart", "pattern", "starts_with", "contains", "definition", "length"}

\* the f: tag Datamuse gives for a word, or 0.0 when the request fails
FrequencyValues == {0, 1}

\* what get_word_definition may return: no definition, or a text
DefinitionOutcomes == {None, Some("definition")}

\* the positions of a word list in descending order of score, equal scores in
\* list order: list.sort(key=score, reverse=True)
RECURSIVE SortByScore(_, _)
SortByScore(positions, score) ==
    IF positions = << >> THEN << >>
    ELSE LET best == CHOOSE i \in 1..Len(positions) :
                         /\ \A j \in 1..Len(positions) :
                               score[positions[j]] <= score[positions[i]]
                         /\ \A j \in 1..(i - 1) :
                               score[positions[j]] < score[positions[i]]
         IN <<positions[best]>>
            \o SortByScore([j \in 1..(Len(positions) - 1) |->
                               IF j < best THEN positions[j] ELSE positions[j + 1]],
                           score)

\* seq[:n]
Prefix(seq, n) == SubSeq(seq, 1, IF n < Len(seq) THEN n ELSE Len(seq))

\* the frequency ranking of get_hint: the top 5 of the first 20 possible words
rank_by_frequency(possible, score) ==
    LET first == Prefix(possible, 20)
        order == SortByScore([i \in 1..Len(first) |-> i], score)
    IN Prefix([i \in 1..Len(order) |-> first[order[i]]], 5)

\* the scores get_word_frequency may give to the first 20 possible words
FrequencyOutcomes(possible) ==
    IF use_api_fallback /\ Len(possible) > 1
    THEN [1..Len(Prefix(possible, 20)) -> FrequencyValues]
    ELSE {<< >>}

\* random.sample(range(n), k), as the set of the sampled positions (from 1)
Samples(n, k) == {P \in SUBSET (1..n) : Cardinality(P) = k}

\* the pattern of a word: the letters at the positions, "_" elsewhere
pattern_of(hint_word, reveal_positions) ==
    [i \in 1..Len(hint_word) |->
        IF i \in reveal_positions THEN UpperChar(hint_word[i]) ELSE "_"]

max(x, y) == IF x > y THEN x ELSE y
min(x, y) == IF x < y THEN x ELSE y

\* the positions get_hint samples for the style, if it samples any
RevealChoices(hint_type, hint_word, target_length, height) ==
    IF hint_type = "pattern"
    THEN Samples(Len(hint_word), min(2, Len(hint_word)))
    ELSE IF hint_type \notin {"starts_with", "contains", "definition", "length"}
            /\ height > 3 /\ height <= 6
    THEN Samples(Len(hint_word), max(1, target_length \div 3))
    ELSE {{}}

\* the answers of get_word_definition, if the style asks for a definition
DefinitionChoices(hint_type, height, coin) ==
    IF use_api_fallback
       /\ \/ hint_type = "definition"
          \/ /\ hint_type \notin {"pattern", "starts_with", "contains", "length"}
             /\ height > 6 /\ coin
    THEN DefinitionOutcomes
    ELSE {None}

\* random.random() < 0.5, where get_hint draws it
CoinChoices(hint_type, height) ==
    IF hint_type \notin {"pattern", "starts_with", "contains", "definition", "length"}
       /\ height > 6 /\ use_api_fallback
    THEN BOOLEAN
    ELSE {FALSE}

\* the hint text of get_hint: its wording, the number in it, the letters or the
\* pattern it shows, and the definition it quotes
hint_text(hint_type, hint_word, target_length, height, reveal_positions, definition) ==
    IF hint_type = "pattern"
    THEN [text |-> "Try a N-letter word with pattern:", number |-> target_length,
          shown |-> pattern_of(hint_word, reveal_positions), definition |-> None]
    ELSE IF hint_type = "starts_with"
    THEN [text |-> "Try a N-letter word starting with", number |-> target_length,
          shown |-> <<UpperChar(hint_word[1])>>, definition |-> None]
    ELSE IF hint_type = "contains"
    THEN [text |-> "Try a N-letter word containing the letter", number |-> target_length,
          shown |-> <<UpperChar(hint_word[Len(hint_word) \div 2 + 1])>>,
          definition |-> None]
    ELSE IF hint_type = "definition"
    THEN IF definition # None
         THEN [text |-> "Definition:", number |-> 0, shown |-> << >>,
               definition |-> definition]
         ELSE [text |-> "Try a N-letter word (like '...')", number |-> target_length,
               shown |-> upper(Prefix(hint_word, Len(hint_word) \div 2)),
               definition |-> None]
    ELSE IF hint_type = "length"
    THEN [text |-> "The next word should be N letters long", number |-> target_length,
          shown |-> << >>, definition |-> None]
    ELSE IF height <= 3
    THEN [text |-> "Try a N-letter word starting with '...'", number |-> target_length,
          shown |-> upper(Prefix(hint_word, 2)), definition |-> None]
    ELSE IF height <= 6
    THEN [text |-> "Try matching this pattern:", number |-> 0,
          shown |-> pattern_of(hint_word, reveal_positions), definition |-> None]
    ELSE IF definition # None
    THEN [text |-> "Hint:", number |-> 0, shown |-> << >>, definition |-> definition]
    ELSE [text |-> "Try a N-letter word starting with", number |-> target_length,
          shown |-> <<UpperChar(hint_word[1])>>, definition |-> None]

\* the four messages get_hint chooses from when no word is possible
NoWordsMessages ==
    <<"Incredible! You've reached the maximum height",
      "Amazing job! No more words can be built",
      "You've mastered this tower!",
      "Outstanding! Your tower is complete">>

\* WordRiseGame.__init__ of the enhanced engine; with starting_word None and no
\* word of length 3 it raises and no game exists
InitEnhanced ==
    \E words \in EnhancedWordFiles, arg \in EnhancedStartingWordArgs :
        /\ words_set = words
        /\ words_by_length = LoadWordsByLength(words)
        /\ use_api_fallback = TRUE
        /\ api_cache = << >>
        /\ now = 0
        /\ sessions = << >>
        /\ threads = << >>
        /\ hints_used = 0
        /\ end_time = None
        /\ IF arg = None
           THEN starting_word \in get_random_word(3)
           ELSE starting_word = lower(arg[1])
        /\ tower = <<starting_word>>
        /\ start_time = now
        /\ result = [op |-> "init"]

\* WordRiseGame.add_word of the enhanced engine
enhanced_add_word(word_arg) ==
    LET word == strip(lower(word_arg))
    IN \E net \in RequestOutcomes(word) :
        LET v == is_valid_word(word, net)
            current_word == tower[Len(tower)]
            cb == can_build_word(current_word, word)
            added == get_added_letter(current_word, word)
        IN /\ words_set' = v.words_set
           /\ api_cache' = v.cache
           /\ IF ~v.valid
              THEN /\ tower' = tower
                   /\ result' = [op |-> "add_word", arg |-> word_arg, success |-> FALSE,
                                 message |-> [text |-> "is not a valid word", arg |-> word]]
              ELSE IF InSeq(word, tower)
              THEN /\ tower' = tower
                   /\ result' = [op |-> "add_word", arg |-> word_arg, success |-> FALSE,
                                 message |-> [text |-> "has already been used", arg |-> word]]
              ELSE IF ~cb[1]
              THEN /\ tower' = tower
                   /\ result' = [op |-> "add_word", arg |-> word_arg, success |-> FALSE,
                                 message |-> cb[2]]
              ELSE /\ tower' = Append(tower, word)
                   /\ result' = [op |-> "add_word", arg |-> word_arg, success |-> TRUE,
                                 message |-> [text |-> "Added to build",
                                              arg |-> cb[2].arg \o upper(word)],
                                 word |-> word,
                                 added_letter |-> Some(UpperChar(added[1])),
                                 tower_height |-> Len(tower'),
                                 current_letters |-> sorted(word)]
           /\ UNCHANGED <<sessions, threads,
                          starting_word, start_time, end_time, hints_used,
                          words_by_length, use_api_fallback, now>>

\* the lists the frequency ranking of get_hint may leave in possible_words
RankedOutcomes(possible) ==
    IF use_api_fallback /\ Len(possible) > 1
    THEN {rank_by_frequency(possible, score) : score \in FrequencyOutcomes(possible)}
    ELSE {possible}

\* WordRiseGame.get_hint of the enhanced engine
enhanced_get_hint(hint_type) ==
    LET current_word == tower[Len(tower)]
        target_length == Len(current_word) + 1
        height == Len(tower)
    IN /\ hints_used < MaxHints
       /\ hints_used' = hints_used + 1
       /\ \E possible \in {possible_words(get_words_of_length(target_length),
                                          tower, current_word)} :
            IF possible = << >>
            THEN \E m \in 1..Len(NoWordsMessages) :
                    result' = [op |-> "get_hint", success |-> FALSE,
                               message |-> [text |-> NoWordsMessages[m], arg |-> << >>],
                               no_words_available |-> TRUE,
                               tower_height |-> height,
                               final_word |-> upper(current_word)]
            ELSE \E ranked \in RankedOutcomes(possible) :
                   LET choices == IF Len(ranked) > 5 THEN Prefix(ranked, 5) ELSE ranked
                   IN \E k \in 1..Len(choices), coin \in CoinChoices(hint_type, height) :
                        \E reveal_positions \in
                                RevealChoices(hint_type, choices[k], target_length, height),
                           definition \in DefinitionChoices(hint_type, height, coin) :
                          result' = [op |-> "get_hint", success |-> TRUE,
                                     hint |-> hint_text(hint_type, choices[k], target_length,
                                                        height, reveal_positions, definition),
                                     possible_words_count |-> Len(ranked),
                                     current_height |-> height,
                                     target_length |-> target_length]
       /\ UNCHANGED <<sessions, threads,
                      tower, starting_word, start_time, end_time, words_set,
                      words_by_length, use_api_fallback, api_cache, now>>

NextEnhanced ==
    \/ \E word_arg \in EnhancedAddWordArgs : enhanced_add_word(word_arg)
    \/ undo_last_word
    \/ reset_game
    \/ \E hint_type \in EnhancedHintTypes : enhanced_get_hint(hint_type)
    \/ \E enabled \in BOOLEAN : set_api_fallback(enabled)

SpecEnhanced == InitEnhanced /\ [][NextEnhanced]_vars

(***************************************************************************)
(* The constructors of the two engines, called over a loaded word list.    *)
(* result holds the call to make and then the call with what it raised.    *)
(***************************************************************************)
Engines == {"app", "enhanced"}
ConstructorWordFiles == SUBSET {a, at, art, cat, tart}

InitConstructor ==
    \E words \in ConstructorWordFiles, arg \in StartingWordArgs, engine \in Engines :
        /\ words_set = words
        /\ words_by_length = LoadWordsByLength(words)
        /\ use_api_fallback = TRUE
        /\ api_cache = << >>
        /\ now = 0
        /\ sessions = << >>
        /\ threads = << >>
        /\ hints_used = 0
        /\ start_time = None
        /\ end_time = None
        /\ starting_word = << >>
        /\ tower = << >>
        /\ result = [op |-> "call", fn |-> "WordRiseGame", engine |-> engine,
                     starting_word |-> arg]

\* WordRiseGame.__init__ of src/app/game_engine.py
app_WordRiseGame ==
    /\ result.op = "call" /\ result.engine = "app"
    /\ hints_used' = 0
    /\ end_time' = None
    /\ IF result.starting_word # None /\ result.starting_word[1] # << >>
       THEN starting_word' = lower(result.starting_word[1])
       ELSE IF get_random_word(3) # {}
       THEN starting_word' \in get_random_word(3)
       ELSE starting_word' = cat
    /\ tower' = <<starting_word'>>
    /\ start_time' = now
    /\ result' = [op |-> "WordRiseGame", engine |-> "app",
                  starting_word |-> result.starting_word, raised |-> None]
    /\ UNCHANGED <<sessions, threads,
                   words_set, words_by_length, use_api_fallback, api_cache, now>>

\* WordRiseGame.__init__ of src/game_engine.py: with no starting word and no
\* word of length 3, get_random_word gives None and None.lower() raises
enhanced_WordRiseGame ==
    /\ result.op = "call" /\ result.engine = "enhanced"
    /\ IF result.starting_word = None /\ get_random_word(3) = {}
       THEN /\ result' = [op |-> "WordRiseGame", engine |-> "enhanced",
                          starting_word |-> result.starting_word,
                          raised |-> Some("AttributeError")]
            /\ UNCHANGED <<sessions, threads,
                           tower, starting_word, start_time, end_time, hints_used>>
       ELSE /\ IF result.starting_word = None
               THEN starting_word' \in get_random_word(3)
               ELSE starting_word' = lower(result.starting_word[1])
            /\ tower' = <<starting_word'>>
            /\ start_time' = now
            /\ end_time' = None
            /\ hints_used' = 0
            /\ result' = [op |-> "WordRiseGame", engine |-> "enhanced",
                          starting_word |-> result.starting_word, raised |-> None]
    /\ UNCHANGED <<sessions, threads,
                   words_set, words_by_length, use_api_fallback, api_cache, now>>

NextConstructor ==
    \/ app_WordRiseGame
    \/ enhanced_WordRiseGame

SpecConstructor == InitConstructor /\ [][NextConstructor]_vars

(***************************************************************************)
(* Growth of the tower with the oracle off: a game after                   *)
(* set_api_fallback(False), then only add_word calls that succeed, and     *)
(* get_hint.                                                               *)
(***************************************************************************)
starts == <<"s","t","a","r","t","s">>
GrowWordFiles ==
    { {art, cat, tart, path, start, tarts},
      {a, at, art, tart, cart, dart, part, mart, wart},
      {a, at, cat},
      {} }
GrowStartingWordArgs == {None, Some(<<"A","R","T">>), Some(a), Some(starts)}

InitGrow ==
    \E words \in GrowWordFiles, arg \in GrowStartingWordArgs :
        /\ words_set = words
        /\ words_by_length = LoadWordsByLength(words)
        /\ use_api_fallback = FALSE
        /\ api_cache = << >>
        /\ now = 0
        /\ sessions = << >>
        /\ threads = << >>
        /\ hints_used = 0
        /\ end_time = None
        /\ IF arg # None /\ arg[1] # << >>
           THEN starting_word = lower(arg[1])
           ELSE IF get_random_word(3) # {}
           THEN starting_word \in get_random_word(3)
           ELSE starting_word = cat
        /\ tower = <<starting_word>>
        /\ start_time = now
        /\ result = [op |-> "set_api_fallback"]

\* the known words add_word has not to reject: unused, and built on the
\* current word
AddableWords ==
    {w \in words_set :
        ~InSeq(w, tower) /\ can_build_word(CurrentWordOf(tower), w)[1]}

\* an add_word call that succeeds
add_word_succeeds ==
    \E word_arg \in AddableWords : add_word(word_arg) /\ result'.success

NextGrow ==
    \/ add_word_succeeds
    \/ \E hint_type \in HintTypes : get_hint(hint_type)

SpecGrow == InitGrow /\ [][NextGrow]_vars

(***************************************************************************)
(* SessionManager (app/session_manager.py): the sessions dictionary under  *)
(* create_session, get_session and delete_session, with the clock of Tick. *)
(***************************************************************************)
\* the values uuid.uuid4() may give
SessionIds == {"s1", "s2"}

\* SessionManager(timeout_minutes=2)
timeout_minutes == 2

\* the starting_word arguments of create_session
SessionStartingWordArgs == {None, Some(<<"A","R","T">>)}

\* GameSession.__init__ over WordRiseGame(starting_word=starting_word)
GameSession(game, session_id) ==
    [session_id |-> session_id, game |-> game, created_at |-> now,
     last_accessed |-> now, is_ended |-> FALSE]

\* WordRiseGame.__init__ as create_session calls it
WordRiseGame(arg) ==
    {[tower |-> <<sw>>, starting_word |-> sw, start_time |-> now,
      end_time |-> None, hints_used |-> 0] :
        sw \in IF arg # None /\ arg[1] # << >> THEN {lower(arg[1])}
               ELSE IF get_random_word(3) # {} THEN get_random_word(3)
               ELSE {cat}}

\* GameSession.touch
touch(session) == [session EXCEPT !.last_accessed = now]

\* SessionManager._cleanup_old_sessions
cleanup_old_sessions(ss) ==
    LET cutoff_time == now - timeout_minutes * 60
        sessions_to_delete ==
            {session_id \in DOMAIN ss : ss[session_id].last_accessed < cutoff_time}
    IN  [session_id \in DOMAIN ss \ sessions_to_delete |-> ss[session_id]]

InitSessions ==
    \E words \in WordFiles :
        /\ words_set = words
        /\ words_by_length = LoadWordsByLength(words)
        /\ use_api_fallback = TRUE
        /\ api_cache = << >>
        /\ now = 0
        /\ sessions = << >>
        /\ threads = << >>
        /\ hints_used = 0
        /\ end_time = None
        /\ starting_word = cat
        /\ tower = <<starting_word>>
        /\ start_time = now
        /\ result = [op |-> "SessionManager"]

\* SessionManager.create_session
create_session(starting_word_arg) ==
    \E session_id \in SessionIds \ DOMAIN sessions,
       game \in WordRiseGame(starting_word_arg) :
        LET session == GameSession(game, session_id)
            stored == [id \in DOMAIN sessions \cup {session_id} |->
                          IF id = session_id THEN session ELSE sessions[id]]
        IN  /\ sessions' = cleanup_old_sessions(stored)
            /\ result' = [op |-> "create_session", session |-> Some(session)]
            /\ UNCHANGED <<threads, tower, starting_word, start_time, end_time,
                           hints_used, words_set, words_by_length,
                           use_api_fallback, api_cache, now>>

\* SessionManager.get_session
get_session(session_id) ==
    /\ IF session_id \in DOMAIN sessions
       THEN /\ sessions' = [sessions EXCEPT ![session_id] = touch(@)]
            /\ result' = [op |-> "get_session", session_id |-> session_id,
                          session |-> Some(sessions'[session_id])]
       ELSE /\ sessions' = sessions
            /\ result' = [op |-> "get_session", session_id |-> session_id,
                          session |-> None]
    /\ UNCHANGED <<threads, tower, starting_word, start_time, end_time,
                   hints_used, words_set, words_by_length, use_api_fallback,
                   api_cache, now>>

\* SessionManager.delete_session
delete_session(session_id) ==
    /\ IF session_id \in DOMAIN sessions
       THEN /\ sessions' = [id \in DOMAIN sessions \ {session_id} |-> sessions[id]]
            /\ result' = [op |-> "delete_session", session_id |-> session_id,
                          deleted |-> TRUE]
       ELSE /\ sessions' = sessions
            /\ result' = [op |-> "delete_session", session_id |-> session_id,
                          deleted |-> FALSE]
    /\ UNCHANGED <<threads, tower, starting_word, start_time, end_time,
                   hints_used, words_set, words_by_length, use_api_fallback,
                   api_cache, now>>

NextSessions ==
    \/ \E starting_word_arg \in SessionStartingWordArgs :
          create_session(starting_word_arg)
    \/ \E session_id \in SessionIds : get_session(session_id)
    \/ \E session_id \in SessionIds : delete_session(session_id)
    \/ Tick

SpecSessions == InitSessions /\ [][NextSessions]_vars

(***************************************************************************)
(* Two threads that call add_word on the game of one session: get_session  *)
(* hands the same GameSession to every caller and add_word takes no lock,  *)
(* so the statements of the two calls interleave.  A frame of threads      *)
(* holds the position and the local variables of one call.                 *)
(***************************************************************************)
ThreadIds == {1, 2}

\* the words the two callers may send
ThreadAddWordArgs == {Tart, cart, art, xyz}

ThreadWordFiles == { {a, at, art, tart, cart, dart, part, mart, wart} }

InitThreads ==
    \E words \in ThreadWordFiles :
        /\ words_set = words
        /\ words_by_length = LoadWordsByLength(words)
        /\ use_api_fallback = TRUE
        /\ api_cache = << >>
        /\ now = 0
        /\ sessions = << >>
        /\ threads \in [ThreadIds ->
                          {[pc |-> "is_valid_word", word_arg |-> word_arg,
                            word |-> strip(lower(word_arg))] :
                               word_arg \in ThreadAddWordArgs}]
        /\ hints_used = 0
        /\ end_time = None
        /\ starting_word = art
        /\ tower = <<starting_word>>
        /\ start_time = now
        /\ result = [op |-> "init"]

\* the frame of a call that has returned ret
Returned(frame, ret) ==
    [pc |-> "done", word_arg |-> frame.word_arg, word |-> frame.word,
     ret |-> ret]

\* if not self.validator.is_valid_word(word): return ...
add_word_is_valid_word(t) ==
    /\ threads[t].pc = "is_valid_word"
    /\ \E net \in RequestOutcomes(threads[t].word) :
         LET word == threads[t].word
             v == is_valid_word(word, net)
             ret == [op |-> "add_word", arg |-> threads[t].word_arg,
                     success |-> FALSE,
                     message |-> [text |-> "is not a valid word", arg |-> word]]
         IN /\ words_set' = v.words_set
            /\ api_cache' = v.cache
            /\ IF ~v.valid
               THEN /\ threads' = [threads EXCEPT ![t] = Returned(@, ret)]
                    /\ result' = ret
               ELSE /\ threads' = [threads EXCEPT ![t].pc = "in_tower"]
                    /\ result' = result
    /\ UNCHANGED <<sessions, tower, starting_word, start_time, end_time,
                   hints_used, words_by_length, use_api_fallback, now>>

\* if word in self.tower: return ...
add_word_in_tower(t) ==
    /\ threads[t].pc = "in_tower"
    /\ LET word == threads[t].word
           ret == [op |-> "add_word", arg |-> threads[t].word_arg,
                   success |-> FALSE,
                   message |-> [text |-> "has already been used", arg |-> word]]
       IN IF InSeq(word, tower)
          THEN /\ threads' = [threads EXCEPT ![t] = Returned(@, ret)]
               /\ result' = ret
          ELSE /\ threads' = [threads EXCEPT ![t].pc = "can_build_word"]
               /\ result' = result
    /\ UNCHANGED <<sessions, tower, starting_word, start_time, end_time,
                   hints_used, words_set, words_by_length, use_api_fallback,
                   api_cache, now>>

\* current_word = self.get_current_word(); is_valid, message =
\* can_build_word(current_word, word); if not is_valid: return ...
add_word_can_build_word(t) ==
    /\ threads[t].pc = "can_build_word"
    /\ LET word == threads[t].word
           current_word == get_current_word
           cb == can_build_word(current_word, word)
           ret == [op |-> "add_word", arg |-> threads[t].word_arg,
                   success |-> FALSE, message |-> cb[2]]
       IN IF ~cb[1]
          THEN /\ threads' = [threads EXCEPT ![t] = Returned(@, ret)]
               /\ result' = ret
          ELSE /\ threads' = [threads EXCEPT ![t] =
                                 [pc |-> "append", word_arg |-> @.word_arg,
                                  word |-> word, current_word |-> current_word,
                                  message |-> cb[2]]]
               /\ result' = result
    /\ UNCHANGED <<sessions, tower, starting_word, start_time, end_time,
                   hints_used, words_set, words_by_length, use_api_fallback,
                   api_cache, now>>

\* self.tower.append(word)
add_word_append(t) ==
    /\ threads[t].pc = "append"
    /\ tower' = Append(tower, threads[t].word)
    /\ threads' = [threads EXCEPT ![t].pc = "return"]
    /\ UNCHANGED <<sessions, starting_word, start_time, end_time, hints_used,
                   words_set, words_by_length, use_api_fallback, api_cache,
                   now, result>>

\* added_letter = ...; return {'success': True, ...}
add_word_return(t) ==
    /\ threads[t].pc = "return"
    /\ LET word == threads[t].word
           ret == [op |-> "add_word", arg |-> threads[t].word_arg,
                   success |-> TRUE, message |-> threads[t].message,
                   word |-> word,
                   added_letter |->
                       get_added_letter(threads[t].current_word, word),
                   tower_height |-> get_tower_height,
                   current_letters |-> sorted(word)]
       IN /\ threads' = [threads EXCEPT ![t] = Returned(@, ret)]
          /\ result' = ret
    /\ UNCHANGED <<sessions, tower, starting_word, start_time, end_time,
                   hints_used, words_set, words_by_length, use_api_fallback,
                   api_cache, now>>

NextThreads ==
    \E t \in ThreadIds :
        \/ add_word_is_valid_word(t)
        \/ add_word_in_tower(t)
        \/ add_word_can_build_word(t)
        \/ add_word_append(t)
        \/ add_word_return(t)

SpecThreads == InitThreads /\ [][NextThreads]_vars

(***************************************************************************)
(* Properties of the game session.                                         *)
(***************************************************************************)
\* the step is a call of the operation op (the clock step is not a call)
Called(op) == now' = now /\ result'.op = op

\* the result is the GameEnded failure
IsGameEnded(r) ==
    /\ "success" \in DOMAIN r /\ ~r.success
    /\ "message" \in DOMAIN r /\ r.message.text = "Game has ended"

\* the letter multiset of new is that of base plus one occurrence of c
OneMore(base, new, c) ==
    \A d \in {base[i] : i \in 1..Len(base)} \cup {new[i] : i \in 1..Len(new)} \cup {c} :
        CounterGet(new, d) = CounterGet(base, d) + (IF d = c THEN 1 ELSE 0)

\* C1: in every reachable state every adjacent pair of tower words satisfies
\* the build rule: can_build_word(tower[i], tower[i+1]) holds for all i.
C1_AdjacentPairsBuild ==
    \A i \in 1..(Len(tower) - 1) : can_build_word(tower[i], tower[i + 1])[1]

C1_Witness == Len(tower) = 3 /\ result.op = "add_word" /\ result.success

\* C2: once end_game has been called (and until a reset) every add_word,
\* undo_last_word and get_hint call fails with the GameEnded error and leaves
\* the tower and hints_used as they were, while get_game_state still answers.
C2_EndedRejectsMutations ==
    [][ end_time # None =>
          /\ (Called("add_word") \/ Called("undo_last_word") \/ Called("get_hint"))
                => (IsGameEnded(result') /\ tower' = tower /\ hints_used' = hints_used)
          /\ Called("get_game_state")
                => (result'.tower = tower /\ result'.is_active = FALSE) ]_vars

\* C3: in an active session add_word(w) succeeds iff the lowercased, trimmed w
\* is a known word, is not in the tower and can be built on the current word;
\* on success the tower is the old tower with w appended, the reported height
\* is the old height plus 1 and the reported letter is the one w has beyond
\* the current word.
C3_AddWordSucceedsIff ==
    [][ (Called("add_word") /\ end_time = None) =>
          LET w == strip(lower(result'.arg))
              current == tower[Len(tower)]
          IN /\ result'.success <=>
                    (/\ w \in words_set'
                     /\ ~InSeq(w, tower)
                     /\ can_build_word(current, w)[1])
             /\ result'.success =>
                    /\ tower' = Append(tower, w)
                    /\ result'.tower_height = Len(tower) + 1
                    /\ result'.added_letter # None
                    /\ OneMore(current, w, result'.added_letter[1]) ]_vars

C3_Witness ==
    /\ result.op = "add_word" /\ result.success /\ result.arg = Tart
    /\ end_time = None /\ tower[Len(tower)] = tart

\* C4: every failed add_word (unknown word, used word, build-rule violation)
\* returns a failure result and leaves the tower, its height, the current word
\* and hints_used unchanged.
C4_FailedAddWordChangesNothing ==
    [][ (Called("add_word") /\ ~result'.success) =>
          /\ result'.message.text \in
                {"is not a valid word", "has already been used",
                 "Word must be exactly N letters long", "Must use all letters from",
                 "Must add exactly one new letter"}
          /\ tower' = tower
          /\ Len(tower') = Len(tower)
          /\ CurrentWordOf(tower') = CurrentWordOf(tower)
          /\ hints_used' = hints_used ]_vars

C4_Witness ==
    /\ result.op = "add_word" /\ ~result.success
    /\ result.message.text = "Must use all letters from"
    /\ hints_used = 1

\* C5: undo_last_word on a tower of height 1 fails with "Cannot undo starting
\* word" and changes nothing; on a tower of height h > 1 it removes exactly the
\* last word and returns that word's message, the height h-1 and the new
\* current word tower[h-1] (1-indexed), the lower words untouched.
C5_Undo ==
    [][ Called("undo_last_word") =>
          IF Len(tower) = 1
          THEN /\ ~result'.success
               /\ result'.message.text = "Cannot undo starting word"
               /\ UNCHANGED <<sessions, threads,
                              tower, starting_word, start_time, end_time, hints_used>>
          ELSE /\ result'.success
               /\ Len(tower') = Len(tower) - 1
               /\ \A i \in 1..(Len(tower) - 1) : tower'[i] = tower[i]
               /\ result'.message = [text |-> "Removed", arg |-> tower[Len(tower)]]
               /\ result'.tower_height = Len(tower) - 1
               /\ result'.current_word = tower[Len(tower) - 1] ]_vars

C5_Witness == result.op = "undo_last_word" /\ result.success /\ Len(tower) = 2

\* C6: in every reachable state the tower is non-empty and its first word is
\* the starting word, and no call replaces the starting word.
C6_StartingWordStays ==
    /\ [](tower # << >> /\ tower[1] = starting_word)
    /\ [][starting_word' = starting_word]_vars

C6_Witness == result.op = "undo_last_word" /\ ~result.success /\ Len(tower) = 1

\* C7: in every reachable state no word occurs at two positions of the tower.
C7_NoDuplicates ==
    \A i, j \in 1..Len(tower) : i # j => tower[i] # tower[j]

C7_Witness ==
    /\ result.op = "add_word" /\ ~result.success
    /\ result.message.text = "has already been used"
    /\ Len(tower) = 3

\* C8: from any state reset_game yields an active session with the tower
\* [starting_word], hints_used 0 and no end time: the game state of a freshly
\* created session with that starting word.
C8_Reset ==
    [][ Called("reset_game") =>
          /\ tower' = <<starting_word>>
          /\ hints_used' = 0
          /\ end_time' = None
          /\ game_state' = [tower |-> <<starting_word>>, height |-> 1,
                            current_word |-> starting_word,
                            starting_word |-> starting_word,
                            hints_used |-> 0, is_active |-> TRUE] ]_vars

C8_Witness ==
    /\ result.op = "reset_game" /\ tower = <<starting_word>>
    /\ arts \in words_set /\ now > 0

\* C9: end_game on an active session returns calculate_tower_score of the
\* tower as it stands and of the elapsed seconds, merged with that tower, its
\* height, the starting word and hints_used; it changes neither the tower nor
\* hints_used, and afterwards the game state reports is_active = FALSE.
C9_EndGame ==
    [][ (Called("end_game") /\ end_time = None) =>
          LET score == calculate_tower_score(tower, Some(now - start_time))
          IN /\ \A f \in DOMAIN score : result'[f] = score[f]
             /\ result'.tower = tower
             /\ result'.height = Len(tower)
             /\ result'.starting_word = starting_word
             /\ result'.hints_used = hints_used
             /\ tower' = tower
             /\ hints_used' = hints_used
             /\ game_state'.is_active = FALSE ]_vars

C9_Witness ==
    /\ result.op = "end_game" /\ Len(result.tower) = 3 /\ result.speed_bonus > 0
    /\ end_time # None /\ hints_used = 1

\* C10: a second end_game on an ended session fails with GameEnded: it does
\* not stamp the end time again and returns no new score breakdown.
C10_SecondEndFails ==
    [][ (Called("end_game") /\ end_time # None) =>
          /\ IsGameEnded(result')
          /\ end_time' = end_time
          /\ "total_score" \notin DOMAIN result' ]_vars

\* the words a hint may be about: the words of the next length that are not in
\* the tower and can be built on the current word
CandidatePool ==
    LET current == CurrentWordOf(tower)
        words == get_words_of_length(Len(current) + 1)
    IN {w \in {words[i] : i \in 1..Len(words)} :
            ~InSeq(w, tower) /\ can_build_word(current, w)[1]}

\* C11: hints_used counts the get_hint calls since creation or the last reset:
\* each get_hint call adds exactly 1, with a hint or with the no-moves result;
\* add_word, undo_last_word and end_game leave it, and only reset_game lowers it.
C11_HintsCounted ==
    [][ /\ Called("get_hint") => hints_used' = hints_used + 1
        /\ (Called("add_word") \/ Called("undo_last_word") \/ Called("end_game"))
              => hints_used' = hints_used
        /\ hints_used' # hints_used
              => (Called("get_hint") \/ (Called("reset_game") /\ hints_used' = 0)) ]_vars

C11_Witness == result.op = "get_hint" /\ ~result.success /\ hints_used = 1

\* C12: get_hint returns the no-moves result iff no word of the next length is
\* outside the tower and buildable on the current word; so after end_game on a
\* tower that cannot grow, get_hint gives the no-moves result and no candidate.
C12_NoMovesIff ==
    [][ Called("get_hint") =>
          /\ (~result'.success /\ result'.message.text = "No more words possible!")
                <=> CandidatePool = {}
          /\ (end_time # None /\ CandidatePool = {})
                => (~result'.success /\ "hint" \notin DOMAIN result') ]_vars

C12_Witness ==
    /\ result.op = "get_hint" /\ ~result.success
    /\ end_time # None /\ tower = <<cat>>

\* C15: get_hint never changes the tower, whether it yields a hint or the
\* no-moves result.
C15_HintKeepsTower ==
    [][ Called("get_hint") => tower' = tower ]_vars

C15_Witness ==
    /\ result.op = "get_hint" /\ result.success /\ Len(tower) = 2 /\ hints_used = 1

\* the number of occurrences of the letter x in the word w
Occurrences(w, x) == Cardinality({i \in 1..Len(w) : w[i] = x})

\* the letters of the two words
LettersOf(b, c) == {b[i] : i \in 1..Len(b)} \cup {c[i] : i \in 1..Len(c)}

\* the size of the multiset difference c minus b is exactly 1
DifferenceIsOne(b, c) ==
    \E x \in LettersOf(b, c) :
        /\ Occurrences(c, x) = Occurrences(b, x) + 1
        /\ \A y \in LettersOf(b, c) \ {x} : Occurrences(c, y) <= Occurrences(b, y)

\* C16: can_build_word(base, candidate) is true iff the candidate is one letter
\* longer, has every letter at least as often as the base, and the multiset
\* difference candidate minus base has size 1; can_build_word(w, w) is false.
C16_CanBuildIff ==
    result.op = "can_build_word" =>
        LET b == result.base_word
            c == result.new_word
        IN /\ result.value[1] <=>
                 /\ Len(c) = Len(b) + 1
                 /\ \A x \in LettersOf(b, c) : Occurrences(c, x) >= Occurrences(b, x)
                 /\ DifferenceIsOne(b, c)
           /\ b = c => ~result.value[1]

C16_Witness ==
    /\ result.op = "can_build_word" /\ result.value[1]
    /\ result.base_word = <<"a", "b">> /\ result.new_word = <<"b", "a", "a">>

\* C17: get_added_letter(base, candidate) returns a letter exactly when
\* can_build_word(base, candidate) succeeds and nothing otherwise, and the
\* returned letter added once to the base's letters gives the candidate's.
C17_AddedLetterIffCanBuild ==
    result.op = "get_added_letter" =>
        /\ (result.value # None) <=> can_build_word(result.base_word, result.new_word)[1]
        /\ result.value # None =>
              OneMore(result.base_word, result.new_word, result.value[1])

\* the sum over the 1-indexed levels i <= n of len(tw[i]) * i
RECURSIVE LevelSum(_, _)
LevelSum(tw, n) == IF n = 0 THEN 0 ELSE Len(tw[n]) * n + LevelSum(tw, n - 1)

\* the occurrences of q, z, x, j, k over all the words of the tower
UncommonOccurrences(tw) ==
    Cardinality({p \in UNION {{<<i, j>> : j \in 1..Len(tw[i])} : i \in 1..Len(tw)} :
                    tw[p[1]][p[2]] \in {"q", "z", "x", "j", "k"}})

\* C18: calculate_tower_score gives base_score = sum of len(tower[i]) * i over
\* the 1-indexed levels, letter_bonus = 5 per occurrence of q, z, x, j, k,
\* total_score = base_score + letter_bonus + speed_bonus and one breakdown
\* entry per level; for the empty tower all numbers are 0 and the breakdown is
\* empty.
C18_ScoreFormula ==
    result.op = "calculate_tower_score" =>
        LET tw == result.tower
            v == result.value
        IN /\ v.base_score = LevelSum(tw, Len(tw))
           /\ v.letter_bonus = 5 * UncommonOccurrences(tw)
           /\ v.total_score = v.base_score + v.letter_bonus + v.speed_bonus
           /\ Len(v.breakdown) = Len(tw)
           /\ \A i \in 1..Len(tw) :
                 v.breakdown[i].level = i /\ v.breakdown[i].word = tw[i]
           /\ tw = << >> =>
                 /\ v.total_score = 0 /\ v.base_score = 0 /\ v.letter_bonus = 0
                 /\ v.speed_bonus = 0 /\ v.height = 0 /\ v.breakdown = << >>

C18_Witness ==
    /\ result.op = "calculate_tower_score"
    /\ result.tower = <<ka, art, tart>> /\ result.time_seconds = Some(200)
    /\ result.value.total_score = 27

\* C19: speed_bonus is floor((base_score + letter_bonus) / 10) whenever a time
\* is given and is below 300 seconds, for every given value from 0 to 299, and
\* 0 when the time is absent or 300 or more.
C19_SpeedBonusBelowLimit ==
    result.op = "calculate_tower_score" =>
        LET v == result.value
            t == result.time_seconds
        IN v.speed_bonus = IF t # None /\ t[1] < 300
                           THEN (v.base_score + v.letter_bonus) \div 10
                           ELSE 0

\* C20 as stated: for every non-empty tower the total score at 200 seconds is
\* strictly greater than the total score of the same tower at 400 seconds.
C20_StrictlyGreater ==
    (result.op = "calculate_tower_score" /\ result.tower # << >>) =>
        calculate_tower_score(result.tower, Some(200)).total_score
            > calculate_tower_score(result.tower, Some(400)).total_score

\* C20: for every non-empty tower the total score at 200 seconds is at least
\* the total score of the same tower at 400 seconds, and strictly greater
\* exactly when base_score + letter_bonus is 10 or more.
C20_GreaterFromTen ==
    (result.op = "calculate_tower_score" /\ result.tower # << >>) =>
        LET fast == calculate_tower_score(result.tower, Some(200))
            slow == calculate_tower_score(result.tower, Some(400))
        IN /\ fast.total_score >= slow.total_score
           /\ fast.total_score > slow.total_score
                 <=> fast.base_score + fast.letter_bonus >= 10

C20_Witness ==
    /\ result.op = "calculate_tower_score" /\ result.tower = <<art, tart>>
    /\ result.time_seconds = Some(200)
    /\ result.value.total_score = 12

\* the number of letter positions a hint shows
Revealed(shown) == Cardinality({i \in 1..Len(shown) : shown[i] # "_"})

\* C13: every hint of a style that reveals letters shows strictly fewer letter
\* positions than the candidate has, so the candidate is never shown in full,
\* also when it has only 2 or 3 letters.
C13_HintHidesCandidate ==
    (result.op = "get_hint" /\ result.success) =>
        Revealed(result.hint.shown) < result.target_length

\* C14: the count a successful get_hint reports is the size of the full pool
\* of candidates, with or without the frequency ranking.
C14_CountIsPoolSize ==
    (result.op = "get_hint" /\ result.success) =>
        result.possible_words_count = Cardinality(CandidatePool)

\* the texts of the rejections of can_build_word
BuildRejections ==
    {"Word must be exactly N letters long", "Must use all letters from",
     "Must add exactly one new letter"}

\* C21: a rejected add_word reports the first of: not a valid word, already
\* used, build rule.  A word that is in the tower is rejected as already used
\* and never for its length; an unknown word is rejected as not a valid word
\* whatever its letters.  (A rejected call leaves words_set and the tower as
\* they were, so the conditions are read in the state the call leaves.)
C21_RejectionPrecedence ==
    (result.op = "add_word" /\ ~result.success) =>
        LET word == strip(lower(result.arg))
        IN IF word \notin words_set
           THEN result.message.text = "is not a valid word"
           ELSE IF InSeq(word, tower)
           THEN result.message.text = "has already been used"
           ELSE result.message.text \in BuildRejections

C21_Witness ==
    /\ result.op = "add_word" /\ ~result.success
    /\ result.message.text = "has already been used"
    /\ Len(strip(lower(result.arg))) # Len(CurrentWordOf(tower)) + 1

\* C23 as stated: at every point get_words_of_length(n) is exactly the set of
\* the known words of length n, also after the oracle confirmed a word and it
\* was learned.
C23_WordsOfLengthAreTheKnownWords ==
    \A n \in {Len(w) : w \in words_set} \cup DOMAIN words_by_length :
        {get_words_of_length(n)[i] : i \in 1..Len(get_words_of_length(n))}
            = {w \in words_set : Len(w) = n}

\* C27: the lengths of the tower words grow by exactly one per level, so no
\* word of the tower has the length the build rule asks of the next word.
C27_LengthsGrowByOne ==
    /\ \A i \in 1..Len(tower) : Len(tower[i]) = Len(tower[1]) + (i - 1)
    /\ \A i \in 1..Len(tower) :
          /\ Len(tower[i]) # Len(CurrentWordOf(tower)) + 1
          /\ ~can_build_word(CurrentWordOf(tower), tower[i])[1]
          /\ can_build_word(CurrentWordOf(tower), tower[i])[2].text
                = "Word must be exactly N letters long"

C27_Witness ==
    /\ Len(tower) = 3 /\ result.op = "add_word" /\ ~result.success
    /\ result.message.text = "has already been used"

\* C28: can_build_word never gives the rejection "Must add exactly one new
\* letter": when the length check and the check of the base letters pass,
\* exactly one letter was added.
C28_OneLetterRejectionUnreachable ==
    result.op = "can_build_word" =>
        /\ result.value[2].text # "Must add exactly one new letter"
        /\ (/\ Len(result.new_word) = Len(result.base_word) + 1
            /\ \A x \in LettersOf(result.base_word, result.new_word) :
                  Occurrences(result.new_word, x) >= Occurrences(result.base_word, x))
              => (result.value[1] /\ DifferenceIsOne(result.base_word, result.new_word))

C28_Witness ==
    /\ result.op = "can_build_word" /\ result.value[1]
    /\ result.base_word = <<"k", "a">> /\ result.new_word = <<"a", "k", "a">>

\* C24: when the request for a word that is not in words_set fails (the oracle
\* knows the word, yet the answer kept for it is False), add_word returns the
\* "is not a valid word" failure as a result, the tower is unchanged and the
\* word is not added to words_set.
C24_OracleErrorIsNotAWord ==
    [][ LET word == strip(lower(result'.arg))
        IN (/\ Called("add_word")
            /\ word \notin words_set /\ use_api_fallback
            /\ word \notin DOMAIN api_cache
            /\ word \in OracleWords /\ ~api_cache'[word])
           => /\ ~result'.success
              /\ result'.message = [text |-> "is not a valid word", arg |-> word]
              /\ tower' = tower
              /\ words_set' = words_set
              /\ word \notin words_set' ]_vars

C24_Witness ==
    /\ result.op = "add_word" /\ result.arg = arts /\ ~result.success
    /\ result.message.text = "is not a valid word"
    /\ arts \in DOMAIN api_cache /\ ~api_cache[arts] /\ use_api_fallback

\* C26: a successful add_word(w) appends w, an undo_last_word right after it
\* removes w again and leaves the tower as it was before the add_word, and an
\* add_word(w) right after that undo succeeds again.
C26_AddThenUndo ==
    [][ /\ (Called("add_word") /\ result'.success)
              => tower' = Append(tower, result'.word)
        /\ (Called("undo_last_word") /\ result.op = "add_word" /\ result.success)
              => /\ result'.success
                 /\ Append(tower', result.word) = tower
                 /\ Len(tower') = Len(tower) - 1
        /\ (/\ Called("add_word")
            /\ result.op = "undo_last_word" /\ result.success
            /\ strip(lower(result'.arg)) = result.message.arg)
              => /\ result'.success
                 /\ tower' = Append(tower, result.message.arg) ]_vars

C26_Witness ==
    /\ result.op = "undo_last_word" /\ result.success
    /\ result.message.arg = start /\ tower = <<art, tart>>

\* C22: the constructor called without a starting word never fails: the
\* starting word is one of the words of length 3 when there are any and the
\* default word 'cat' when there are none, and the new game is active with
\* tower = [starting_word], height 1 and hints_used 0.
C22_DefaultStartingWord ==
    (result.op = "WordRiseGame" /\ result.starting_word = None) =>
        /\ result.raised = None
        /\ IF get_random_word(3) # {}
           THEN starting_word \in get_random_word(3)
           ELSE starting_word = cat
        /\ end_time = None
        /\ tower = <<starting_word>>
        /\ Len(tower) = 1
        /\ hints_used = 0

\* the length of the longest word of words_set, 0 when there is none
LongestWord ==
    IF words_set = {} THEN 0
    ELSE CHOOSE n \in {Len(w) : w \in words_set} : \A w \in words_set : Len(w) <= n

\* C29 as stated: with the oracle off the tower height never exceeds
\* (length of the longest word - len(starting_word) + 1).
C29_HeightBound ==
    Len(tower) <= LongestWord - Len(starting_word) + 1

\* C29: with the oracle off the tower height never exceeds the larger of 1 and
\* (length of the longest word - len(starting_word) + 1); every successful
\* add_word raises the height by one, so every run of successful add_word
\* calls is finite; and where no add_word can succeed any more get_hint finds
\* no possible word, while it gives a hint wherever one still can.
C29_GrowthTerminates ==
    /\ [](Len(tower) <= max(1, LongestWord - Len(starting_word) + 1))
    /\ [][Called("add_word") =>
            result'.success /\ Len(tower') = Len(tower) + 1]_vars
    /\ [](AddableWords = {} <=>
            possible_words(get_words_of_length(Len(CurrentWordOf(tower)) + 1),
                           tower, CurrentWordOf(tower)) = << >>)
    /\ [](result.op = "get_hint" => (result.success <=> AddableWords # {}))

C29_Witness ==
    /\ tower = <<art, tart, start>> /\ ~use_api_fallback
    /\ result.op = "get_hint" /\ ~result.success

\* C30: get_session never returns a session whose last access lies more than
\* timeout_minutes in the past: a session idle past the timeout is not handed
\* out and not touched again.
C30_NoExpiredSessionReturned ==
    [][\A session_id \in DOMAIN sessions :
          (now - sessions[session_id].last_accessed > timeout_minutes * 60
           /\ Called("get_session") /\ result'.session_id = session_id)
          => /\ result'.session = None
             /\ session_id \in DOMAIN sessions'
                  => sessions'[session_id].last_accessed
                       = sessions[session_id].last_accessed]_vars

\* the tower after a whole add_word call on tower tw
TowerAfterAddWord(tw, word_arg) ==
    LET word == strip(lower(word_arg))
    IN IF /\ word \in words_set
          /\ ~InSeq(word, tw)
          /\ can_build_word(CurrentWordOf(tw), word)[1]
       THEN Append(tw, word) ELSE tw

\* C25: when two add_word calls issued concurrently on one game have both
\* returned, the tower is one that some sequential order of the two calls
\* gives, and every word of it is built on the word below it: the two calls
\* never both validate against the same current word and both append.
C25_TowerIsSequential ==
    (\A t \in DOMAIN threads : threads[t].pc = "done") /\ DOMAIN threads # {} =>
        /\ \E first \in ThreadIds, second \in ThreadIds :
              /\ first # second
              /\ tower = TowerAfterAddWord(
                             TowerAfterAddWord(<<starting_word>>,
                                               threads[first].word_arg),
                             threads[second].word_arg)
        /\ \A i \in 1..(Len(tower) - 1) :
              can_build_word(tower[i], tower[i + 1])[1]

====
